---- MODULE Spec2Model ----
(***************************************************************************)
(* SSM-Audit Mini Calculator (src/ssm_audit_mini_calc.py): main()'s CSV    *)
(* pipeline as a state machine.                                            *)
(*                                                                         *)
(* Numbers.  Python floats are modelled as fixed-point integers in         *)
(* thousandths (FP = 1000): the alignment 0.52 is 520, the weight 2 is     *)
(* 2000, eps_a = 0.01 is 10.  math.atanh and math.tanh are tabulated at a  *)
(* resolution of 0.01 in the alignment and 0.001 in the rapidity, so a     *)
(* result of tanh is a multiple of 10 and tanh saturates to exactly 1.0    *)
(* for a large argument, as the float does.                                *)
(*                                                                         *)
(* Strings.  A CSV cell is a TLA+ string drawn from a fixed universe of    *)
(* tokens; float() and the JSON text of a token are tables over it         *)
(* (FloatOf, CharsOf).  Cells are taken as already stripped.               *)
(***************************************************************************)
EXTENDS Integers, Sequences, FiniteSets, TLC

\* --------------------------------------------------------------- bounds
\* Longest single-entity series (Spec).
MaxSeries == 4
\* Most sibling rows of one (time, kpi) group (SpecFuse).
MaxSiblings == 2
\* Most sibling rows of one group whose order is permuted (SpecSiblings).
MaxPerm == 3
\* Most input rows of a run over several entities and time spellings (SpecOrder).
MaxRows == 3
\* Most input rows of a run under an arbitrary policy (SpecPolicy).
MaxPolicyRows == 2
\* Most input rows of a run with the portfolio roll-up (SpecSdi).
MaxSdiRows == 3
\* Most consecutive roll-ups of one output file.
MaxRollups == 3

\* ------------------------------------------------------ float arithmetic
\* One unit of the fixed-point representation of a float is 1/FP.
FP == 1000
\* Alignments produced by tanh are multiples of AStep (0.01).
AStep == 10

Abs(x) == IF x < 0 THEN -x ELSE x

\* x / y rounded to the nearest integer, y > 0 (a float division rounds to nearest).
RDiv(x, y) == IF x >= 0 THEN (2 * x + y) \div (2 * y) ELSE -((2 * (-x) + y) \div (2 * y))

\* float product and quotient of two fixed-point floats
Mul(x, y) == RDiv(x * y, FP)
Div(x, y) == IF y > 0 THEN RDiv(x * FP, y) ELSE -RDiv(x * FP, -y)

Max2(x, y) == IF y > x THEN y ELSE x

\* round(1000 * atanh(k / 100)) for k = 0 .. 99, at index k + 1
ATANH_TABLE ==
  <<
   0, 10, 20, 30, 40, 50, 60, 70, 80, 90, 100, 110, 121, 131, 141, 151, 161,
   172, 182, 192, 203, 213, 224, 234, 245, 255, 266, 277, 288, 299, 310, 321,
   332, 343, 354, 365, 377, 388, 400, 412, 424, 436, 448, 460, 472, 485, 497,
   510, 523, 536, 549, 563, 576, 590, 604, 618, 633, 648, 662, 678, 693, 709,
   725, 741, 758, 775, 793, 811, 829, 848, 867, 887, 908, 929, 950, 973, 996,
   1020, 1045, 1071, 1099, 1127, 1157, 1188, 1221, 1256, 1293, 1333, 1376,
   1422, 1472, 1528, 1589, 1658, 1738, 1832, 1946, 2092, 2298, 2647
  >>

\* round(1000 * atanh((k - 0.5) / 100)) for k = 1 .. 100: tanh(x) rounds to at
\* least k/100 exactly when x reaches step k; beyond the last step tanh is 1.0.
TANH_STEPS ==
  <<
   5, 15, 25, 35, 45, 55, 65, 75, 85, 95, 105, 116, 126, 136, 146, 156, 167,
   177, 187, 198, 208, 218, 229, 239, 250, 261, 271, 282, 293, 304, 315, 326,
   337, 348, 360, 371, 383, 394, 406, 418, 430, 442, 454, 466, 478, 491, 504,
   517, 530, 543, 556, 570, 583, 597, 611, 626, 640, 655, 670, 685, 701, 717,
   733, 750, 767, 784, 802, 820, 838, 858, 877, 897, 918, 940, 962, 984,
   1008, 1033, 1058, 1085, 1113, 1142, 1172, 1204, 1238, 1274, 1313, 1354,
   1398, 1447, 1499, 1557, 1623, 1697, 1783, 1886, 2014, 2185, 2443, 2994
  >>

\* math.atanh raises ValueError ("math domain error") outside (-1, 1)
AtanhRaises(a) == Abs(a) >= FP
\* math.atanh(a) for a in (-1, 1)
Atanh(a) ==
  LET v == ATANH_TABLE[(Abs(a) \div AStep) + 1]
  IN IF a < 0 THEN -v ELSE v

\* math.tanh(x), any x
Tanh(x) ==
  LET n == Cardinality({k \in 1..Len(TANH_STEPS) : TANH_STEPS[k] <= Abs(x)})
  IN IF x < 0 THEN -(n * AStep) ELSE n * AStep

\* ----------------------------------------------------------------- cells
\* A value that may be None: <<>> is None, <<v>> is v.
None == <<>>
Some(v) == <<v>>
IsNone(o) == o = <<>>
Val(o) == o[1]

\* The cell of a column the input file does not have (row.get gives its default).
NoCol == "<no column>"

\* The characters (ASCII) of each cell the model draws.
CharsOf ==
     "" :> <<>> @@ "na" :> <<110, 97>> @@ "x" :> <<120>> @@ "abc" :> <<97, 98, 99>> @@
     "bogus" :> <<98, 111, 103, 117, 115>> @@
     "coverage" :> <<99, 111, 118, 101, 114, 97, 103, 101>> @@
     "agreement" :> <<97, 103, 114, 101, 101, 109, 101, 110, 116>> @@
     "residual" :> <<114, 101, 115, 105, 100, 117, 97, 108>> @@ "K1" :> <<75, 49>> @@
     "SDI" :> <<83, 68, 73>> @@
     "K2" :> <<75, 50>> @@ "2024-01-01" :> <<50, 48, 50, 52, 45, 48, 49, 45, 48, 49>> @@
     "2024-01-01T00:00:00" :> <<50, 48, 50, 52, 45, 48, 49, 45, 48, 49, 84, 48, 48, 58, 48, 48, 58, 48, 48>> @@
     "2024-01-02" :> <<50, 48, 50, 52, 45, 48, 49, 45, 48, 50>> @@
     "2024-01-03" :> <<50, 48, 50, 52, 45, 48, 49, 45, 48, 51>> @@
     "2024-01-04" :> <<50, 48, 50, 52, 45, 48, 49, 45, 48, 52>> @@
     "2024-01-05" :> <<50, 48, 50, 52, 45, 48, 49, 45, 48, 53>> @@
     "2024-01-06" :> <<50, 48, 50, 52, 45, 48, 49, 45, 48, 54>> @@ "0" :> <<48>> @@
     "1" :> <<49>> @@ "2" :> <<50>> @@ "3" :> <<51>> @@ "7" :> <<55>> @@
     "-1" :> <<45, 49>> @@ "0.9" :> <<48, 46, 57>> @@ "-0.9" :> <<45, 48, 46, 57>> @@
     "0.3" :> <<48, 46, 51>> @@ "0.05" :> <<48, 46, 48, 53>> @@
     "0.15" :> <<48, 46, 49, 53>> @@ "0.45" :> <<48, 46, 52, 53>> @@
     "0.49" :> <<48, 46, 52, 57>> @@ "0.5" :> <<48, 46, 53>> @@
     "0.52" :> <<48, 46, 53, 50>> @@ "0.54" :> <<48, 46, 53, 52>> @@
     "0.8" :> <<48, 46, 56>> @@ "0.021" :> <<48, 46, 48, 50, 49>> @@
     "0.02" :> <<48, 46, 48, 50>> @@ "0.005" :> <<48, 46, 48, 48, 53>> @@
     "100" :> <<49, 48, 48>> @@ "90" :> <<57, 48>> @@ "50" :> <<53, 48>>

\* float(cell): the cells float() accepts, in thousandths; any other raises ValueError
FloatOf ==
     "0" :> 0 @@ "1" :> 1000 @@ "2" :> 2000 @@ "3" :> 3000 @@ "7" :> 7000 @@
     "-1" :> -1000 @@ "0.9" :> 900 @@ "-0.9" :> -900 @@ "0.3" :> 300 @@ "0.05" :> 50 @@
     "0.15" :> 150 @@ "0.45" :> 450 @@ "0.49" :> 490 @@ "0.5" :> 500 @@ "0.52" :> 520 @@
     "0.54" :> 540 @@ "0.8" :> 800 @@ "0.021" :> 21 @@ "0.02" :> 20 @@ "0.005" :> 5 @@
     "100" :> 100000 @@ "90" :> 90000 @@ "50" :> 50000

\* row.get(col, ""): the cell, or "" when the file has no such column
Cell(c) == IF c = NoCol THEN "" ELSE c
\* float(cell) raises ValueError
FloatRaises(c) == c \notin DOMAIN FloatOf
\* str.lower() on the cells the model draws
Lower(c) == IF c = "NA" THEN "na" ELSE c

\* ------------------------------------------------------------- helpers
clamp(x, lo, hi) == IF x < lo THEN lo ELSE IF x > hi THEN hi ELSE x

\* the clamp bounds -1+eps_a and 1-eps_a
Lo(eps_a) == -FP + eps_a
Hi(eps_a) == FP - eps_a

NoBand == "None"
Bands == {"A--", "A-", "A0", "A+", "A++"}
SCORE == [b \in Bands |->
            CASE b = "A--" -> 1 [] b = "A-" -> 2 [] b = "A0" -> 3
              [] b = "A+" -> 4 [] OTHER -> 5]

band_from_a(a) ==
  IF a >= 750 THEN "A++"
  ELSE IF a >= 500 THEN "A+"
  ELSE IF a >= 250 THEN "A0"
  ELSE IF a >= 100 THEN "A-"
  ELSE "A--"

\* parse_iso on the time cells the model draws: the day of January 2024 (a
\* date-only cell and the same date with a midnight time give the same datetime)
parse_iso(ts) ==
  CASE ts = "2024-01-01" -> 1
    [] ts = "2024-01-01T00:00:00" -> 1
    [] ts = "2024-01-02" -> 2
    [] ts = "2024-01-03" -> 3
    [] ts = "2024-01-04" -> 4
    [] ts = "2024-01-05" -> 5
    [] OTHER -> 6

\* datetime.now(timezone.utc).strftime("%Y-%m-%d") of the run
Today == "2024-01-06"

\* ------------------------------------------------------------- mappers
\* The try block of compute_a_from_mapper: raised is an exception thrown
\* inside it, a is the alignment or None.
MapperTry(row, eps_a) ==
  LET mapper == Lower(Cell(row.mapper))
      ok(a, why) == [raised |-> FALSE, a |-> Some(clamp(a, Lo(eps_a), Hi(eps_a))), reason |-> why]
      none(why) == [raised |-> FALSE, a |-> None, reason |-> why]
      raise == [raised |-> TRUE, a |-> None, reason |-> "ValueError"]
  IN CASE mapper = "coverage" ->
            IF FloatRaises(Cell(row.q)) THEN raise
            ELSE ok(Mul(2 * FP, FloatOf[Cell(row.q)]) - FP, "coverage")
       [] mapper = "agreement" ->
            IF FloatRaises(Cell(row.m1)) THEN raise
            ELSE IF FloatRaises(Cell(row.m2)) THEN raise
            ELSE IF FloatRaises(Cell(row.b)) THEN raise
            ELSE LET m1 == FloatOf[Cell(row.m1)]
                     m2 == FloatOf[Cell(row.m2)]
                     b == FloatOf[Cell(row.b)]
                 IN IF b <= 0 THEN none("agreement:b<=0")
                    ELSE ok(Tanh(FP - Div(Abs(m1 - m2), b)), "agreement")
       [] mapper = "residual" ->
            IF FloatRaises(Cell(row.actual)) THEN raise
            ELSE IF FloatRaises(Cell(row.forecast)) THEN raise
            ELSE IF FloatRaises(Cell(row.s)) THEN raise
            ELSE LET actual == FloatOf[Cell(row.actual)]
                     forecast == FloatOf[Cell(row.forecast)]
                     s == FloatOf[Cell(row.s)]
                     kcell == IF row.k = NoCol THEN "1" ELSE row.k
                 IN IF s <= 0 THEN none("residual:s<=0")
                    ELSE IF kcell # "" /\ FloatRaises(kcell) THEN raise
                    ELSE LET k == IF kcell = "" THEN FP ELSE FloatOf[kcell]
                         IN ok(Tanh(Mul(k, FP - Div(Abs(actual - forecast), s))), "residual")
       [] OTHER -> none("no-mapper")

\* compute_a_from_mapper without its except clause: the exception escapes
MapperNoExcept(row, eps_a) == MapperTry(row, eps_a)

\* compute_a_from_mapper: (a, reason), a = None on any failure
compute_a_from_mapper(row, eps_a) ==
  LET r == MapperTry(row, eps_a)
  IN IF r.raised THEN [raised |-> FALSE, a |-> None, reason |-> "mapper-error"] ELSE r

\* ---------------------------------------------------------- hysteresis
\* next_band with d >= promote weakened to d > promote
next_band_strict(prev_band, a_prev, a_now, promote, demote) ==
  LET raw == band_from_a(a_now)
      d == a_now - (IF IsNone(a_prev) THEN a_now ELSE Val(a_prev))
      ps == IF prev_band \in DOMAIN SCORE THEN SCORE[prev_band] ELSE SCORE[raw]
  IN IF SCORE[raw] > ps /\ d > promote THEN raw
     ELSE IF SCORE[raw] < ps /\ d <= demote THEN raw
     ELSE IF prev_band = NoBand THEN raw ELSE prev_band

next_band(prev_band, a_prev, a_now, promote, demote) ==
  LET raw == band_from_a(a_now)
      d == a_now - (IF IsNone(a_prev) THEN a_now ELSE Val(a_prev))
      ps == IF prev_band \in DOMAIN SCORE THEN SCORE[prev_band] ELSE SCORE[raw]
  IN IF SCORE[raw] > ps /\ d >= promote THEN raw
     ELSE IF SCORE[raw] < ps /\ d <= demote THEN raw
     ELSE IF prev_band = NoBand THEN raw ELSE prev_band

\* -------------------------------------------------------------- alerts
RECURSIVE AlertsLoop(_, _, _, _)
\* the for loop of compute_alerts from record i on; win is the deque(maxlen=3)
AlertsLoop(rows_sorted, i, win, acc) ==
  IF i > Len(rows_sorted) THEN acc
  ELSE LET r == rows_sorted[i]
           w == IF Len(win) = 3 THEN Append(Tail(win), SCORE[r.band_hyst])
                ELSE Append(win, SCORE[r.band_hyst])
           b(p) == IF p THEN 1 ELSE 0
           drops == IF Len(w) = 3
                    THEN b(w[3] < w[2]) + b(w[2] < w[1]) + b(w[3] < w[1])
                    ELSE 0
           fire == Len(w) = 3 /\ drops >= 2
       IN AlertsLoop(rows_sorted, i + 1, w,
                     IF fire
                     THEN Append(acc, [time |-> r.time, kpi |-> r.kpi,
                                       rule |-> "degrade_2of3", value |-> None])
                     ELSE acc)

\* compute_alerts whose window misses the first record of the series
compute_alerts_skip_first(rows_sorted, slope_7d) == AlertsLoop(rows_sorted, 2, <<>>, <<>>)

compute_alerts(rows_sorted, slope_7d) ==
  LET n == Len(rows_sorted)
      deg == AlertsLoop(rows_sorted, 1, <<>>, <<>>)
      slope == Div(rows_sorted[n].a - rows_sorted[n - 7].a, 7 * FP)
  IN IF n >= 8 /\ slope <= slope_7d
     THEN Append(deg, [time |-> rows_sorted[n].time, kpi |-> rows_sorted[n].kpi,
                       rule |-> "slope_7d", value |-> Some(slope)])
     ELSE deg

\* ------------------------------------------------- canonical_json, sort
RECURSIVE Digits(_)
\* the decimal digits of n >= 0
Digits(n) == IF n < 10 THEN <<48 + n>> ELSE Digits(n \div 10) \o <<48 + (n % 10)>>

\* repr(float) of a fixed-point float: "0.52", "-0.9", "0.0", "100000.0"
FloatChars(v) ==
  LET f == Abs(v) % FP
      d1 == 48 + (f \div 100)
      d2 == 48 + ((f \div 10) % 10)
      d3 == 48 + (f % 10)
      frac == IF f % 100 = 0 THEN <<d1>>
              ELSE IF f % 10 = 0 THEN <<d1, d2>>
              ELSE <<d1, d2, d3>>
  IN (IF v < 0 THEN <<45>> ELSE <<>>) \o Digits(Abs(v) \div FP) \o <<46>> \o frac

\* the JSON text of a string cell, with its quotes; nothing for a missing column
StrChars(c) == IF c = NoCol THEN <<>> ELSE <<34>> \o CharsOf[c] \o <<34, 44>>

\* canonical_json(z) of a parsed row z: the values in the order of the sorted
\* keys, each followed by a comma (the key names are the same in every row of
\* a file and are left out)
canonical_json(z) ==
  FloatChars(z.a) \o <<44>> \o StrChars(z.actual) \o StrChars(z.b)
    \o StrChars(z.forecast) \o StrChars(z.k) \o StrChars(z.kpi)
    \o (IF IsNone(z.mf) THEN StrChars(z.m) ELSE FloatChars(Val(z.mf)) \o <<44>>)
    \o StrChars(z.m1) \o StrChars(z.m2) \o StrChars(z.mapper) \o StrChars(z.q)
    \o StrChars(z.s) \o StrChars(z.time) \o StrChars(z.weight)

RECURSIVE LexLess(_, _)
\* s < t for two Python strings given as their characters
LexLess(s, t) ==
  IF t = <<>> THEN FALSE
  ELSE IF s = <<>> THEN TRUE
  ELSE IF s[1] # t[1] THEN s[1] < t[1]
  ELSE LexLess(Tail(s), Tail(t))

RECURSIVE InsertByJson(_, _)
\* z put into the sorted list after every row whose key is not greater (stable)
InsertByJson(z, sorted) ==
  IF sorted = <<>> THEN <<z>>
  ELSE IF LexLess(canonical_json(z), canonical_json(sorted[1]))
       THEN <<z>> \o sorted
       ELSE <<sorted[1]>> \o InsertByJson(z, Tail(sorted))

RECURSIVE SortedByJson(_)
\* sorted(lst, key=canonical_json)
SortedByJson(lst) ==
  IF lst = <<>> THEN <<>>
  ELSE InsertByJson(lst[Len(lst)], SortedByJson(SubSeq(lst, 1, Len(lst) - 1)))

\* the group's rows taken in the order they were read (no sort)
Unsorted(lst) == lst

\* lst_sorted of one group
lst_sorted_of(lst) == SortedByJson(lst)

\* ------------------------------------------------------------- reading
\* One pass of main's reading loop over a CSV row r: the parsed row, and
\* whether an exception escaped the iteration.
ParseRow(r, args) ==
  LET a_value == Cell(r.a)
      use_mapper == args.compute_flag /\ (a_value = "" \/ Lower(a_value) = "na")
      mres == compute_a_from_mapper(r, args.eps_a)
      a_float == IF use_mapper THEN mres.a
                 ELSE IF FloatRaises(a_value) THEN Some(0)
                 ELSE Some(FloatOf[a_value])
      a == clamp(IF IsNone(a_float) THEN 0 ELSE Val(a_float),
                 Lo(args.eps_a), Hi(args.eps_a))
      actual == Cell(r.actual)
      mf == IF Cell(r.m) = "" /\ Lower(Cell(r.mapper)) = "residual"
            THEN IF actual = "" \/ FloatRaises(actual) THEN Some(0)
                 ELSE Some(FloatOf[actual])
            ELSE None
  IN [raised |-> use_mapper /\ mres.raised,
      row |-> [r EXCEPT !.a = a] @@ [mf |-> mf]]

\* ------------------------------------------------------------ grouping
RECURSIVE GroupLoop(_, _, _)
\* grouped[(time, kpi)].append(r) for the rows from i on; grouped is a dict,
\* kept as the list of its (key, rows) items in insertion order
GroupLoop(rs, i, grouped) ==
  IF i > Len(rs) THEN grouped
  ELSE LET r == rs[i]
           key == <<Cell(r.time), Cell(r.kpi)>>
           at == {j \in 1..Len(grouped) : grouped[j].key = key}
       IN GroupLoop(rs, i + 1,
            IF at = {} THEN Append(grouped, [key |-> key, lst |-> <<r>>])
            ELSE LET j == CHOOSE j \in at : TRUE
                 IN [grouped EXCEPT ![j].lst = Append(@, r)])

\* -------------------------------------------------------------- fusion
\* float(z.get("weight", 1) or 1) raises ValueError
WeightRaises(z) == z.weight # NoCol /\ z.weight # "" /\ FloatRaises(z.weight)
\* float(z.get("weight", 1) or 1)
WeightOf(z) == IF z.weight = NoCol \/ z.weight = "" THEN FP ELSE FloatOf[z.weight]

\* the sum of weights the fused rapidity is divided by: den + eps_w
FuseDenPlus(den, eps_w) == den + eps_w

\* the sum of weights the fused rapidity is divided by: max(den, eps_w)
FuseDen(den, eps_w) == Max2(den, eps_w)

RECURSIVE FuseLoop(_, _, _, _, _)
\* the loop over lst_sorted from row i on: the exception it ends with, or
\* the sums num and den
FuseLoop(ls, i, num, den, eps_a) ==
  IF i > Len(ls) THEN [error |-> "", num |-> num, den |-> den]
  ELSE LET z == ls[i]
           a_i == clamp(z.a, Lo(eps_a), Hi(eps_a))
       IN IF WeightRaises(z)
          THEN [error |-> "ValueError: could not convert string to float",
                num |-> num, den |-> den]
          ELSE IF AtanhRaises(a_i)
          THEN [error |-> "ValueError: math domain error", num |-> num, den |-> den]
          ELSE FuseLoop(ls, i + 1, num + Mul(WeightOf(z), Atanh(a_i)),
                        den + WeightOf(z), eps_a)

\* float(z.get("m", "")) succeeds
HasMag(z) == ~IsNone(z.mf) \/ ~FloatRaises(Cell(z.m))
MagOf(z) == IF ~IsNone(z.mf) THEN Val(z.mf) ELSE FloatOf[Cell(z.m)]

\* One pass of the fusion loop over a group (t, k) with rows lst: the
\* exception that ends the run, or the fused row.
FuseGroup(t, k, lst, args) ==
  LET ls == lst_sorted_of(lst)
      mags == {i \in 1..Len(ls) : HasMag(ls[i])}
      m_num == IF mags = {} THEN 0
               ELSE MagOf(ls[CHOOSE i \in mags : \A j \in mags : i <= j])
      sums == FuseLoop(ls, 1, 0, 0, args.eps_a)
      a_out == Tanh(Div(sums.num, FuseDen(sums.den, args.eps_w)))
  IN [error |-> sums.error,
      row |-> [time |-> IF t = "" THEN Today ELSE t, kpi |-> k, m |-> m_num,
               a |-> IF sums.error = "" THEN a_out ELSE 0,
               band |-> NoBand, band_hyst |-> NoBand]]

RECURSIVE FuseAll(_, _, _, _)
\* the fusion loop over grouped.items() from group i on
FuseAll(grouped, i, acc, args) ==
  IF i > Len(grouped) THEN [error |-> "", fused_rows |-> acc]
  ELSE LET g == FuseGroup(grouped[i].key[1], grouped[i].key[2], grouped[i].lst, args)
       IN IF g.error # "" THEN [error |-> g.error, fused_rows |-> acc]
          ELSE FuseAll(grouped, i + 1, Append(acc, g.row), args)

\* ----------------------------------------------------- per-KPI ordering
RECURSIVE SplitLoop(_, _, _)
\* r["band"] = band_from_a(r["a"]); by_kpi[r["kpi"]].append(r), from row i on
SplitLoop(fr, i, by) ==
  IF i > Len(fr) THEN by
  ELSE LET r == [fr[i] EXCEPT !.band = band_from_a(fr[i].a)]
           at == {j \in 1..Len(by) : by[j].kpi = r.kpi}
       IN SplitLoop(fr, i + 1,
            IF at = {} THEN Append(by, [kpi |-> r.kpi, lst |-> <<r>>])
            ELSE LET j == CHOOSE j \in at : TRUE
                 IN [by EXCEPT ![j].lst = Append(@, r)])

RECURSIVE InsertByTime(_, _)
InsertByTime(z, sorted) ==
  IF sorted = <<>> THEN <<z>>
  ELSE IF parse_iso(z.time) < parse_iso(sorted[1].time)
       THEN <<z>> \o sorted
       ELSE <<sorted[1]>> \o InsertByTime(z, Tail(sorted))

RECURSIVE SortedByTime(_)
\* lst.sort(key=lambda z: parse_iso(z["time"])), a stable sort
SortedByTime(lst) ==
  IF lst = <<>> THEN <<>>
  ELSE InsertByTime(lst[Len(lst)], SortedByTime(SubSeq(lst, 1, Len(lst) - 1)))

RECURSIVE InsertKpi(_, _)
InsertKpi(e, sorted) ==
  IF sorted = <<>> THEN <<e>>
  ELSE IF LexLess(CharsOf[e.kpi], CharsOf[sorted[1].kpi])
       THEN <<e>> \o sorted
       ELSE <<sorted[1]>> \o InsertKpi(e, Tail(sorted))

RECURSIVE SortedKpis(_)
\* the items of by_kpi in the order of sorted(by_kpi.keys())
SortedKpis(by) ==
  IF by = <<>> THEN <<>>
  ELSE InsertKpi(by[Len(by)], SortedKpis(SubSeq(by, 1, Len(by) - 1)))

\* f"{a:.4f}": the alignment as written, in ten-thousandths
Format4(a) == a * 10

RECURSIVE OutRows(_)
\* the rows written for the items, one list after the other, a formatted
OutRows(by) ==
  IF by = <<>> THEN <<>>
  ELSE [i \in 1..Len(by[1].lst) |-> [by[1].lst[i] EXCEPT !.a = Format4(@)]]
         \o OutRows(Tail(by))

\* ------------------------------------------------- portfolio roll-up
\* _clamp(a, eps) of append_sdi_rows_from_csv
_clamp(a, eps) ==
  IF a > FP - eps THEN FP - eps
  ELSE IF a < -FP + eps THEN -FP + eps
  ELSE a

\* _norm(name) on the pieces of --sdi_kpis and the entity names the model
\* draws: spaces, then double quotes, then single quotes are stripped from
\* both ends
_norm ==
     "" :> "" @@ " " :> "" @@ "K1" :> "K1" @@ "K2" :> "K2" @@ "SDI" :> "SDI" @@
     " 'K1' " :> "K1" @@ "\"K2\"" :> "K2"

\* set(_norm(s) for s in (sdi_kpis or "").split(",") if _norm(s)), sdi_kpis
\* given as its pieces between the commas
FilterOf(sdi_kpis) == {_norm[sdi_kpis[i]] : i \in 1..Len(sdi_kpis)} \ {""}

\* the rows of every entity but SDI, in file order
PurgeSdi(file_rows) == SelectSeq(file_rows, LAMBDA r : r.kpi # "SDI")

\* every row of the file (nothing is purged)
KeepSdi(file_rows) == file_rows

\* base_rows: the file's rows without the SDI rows
base_rows_of(file_rows) == PurgeSdi(file_rows)

\* float(r.get("a", "")) of a row main or the roll-up wrote: the written
\* alignment read back, in thousandths
ReadA(r) == RDiv(r.a, 10)

\* the row takes part in the roll-up: it passes the KPI filter and has a time
\* (float() of its a never fails on a file main wrote)
Contributes(r, filt) ==
  /\ (filt = {} \/ _norm[r.kpi] \in filt)
  /\ r.time # ""

\* per_day[t], for a key t of per_day: the a-values of day t in file order
PerDay(base_rows, filt, t) ==
  LET sel == SelectSeq(base_rows, LAMBDA r : Contributes(r, filt) /\ r.time = t)
  IN [i \in 1..Len(sel) |-> ReadA(sel[i])]

RECURSIVE InsertTime(_, _)
InsertTime(t, sorted) ==
  IF sorted = <<>> THEN <<t>>
  ELSE IF LexLess(CharsOf[t], CharsOf[sorted[1]])
       THEN <<t>> \o sorted
       ELSE <<sorted[1]>> \o InsertTime(t, Tail(sorted))

RECURSIVE SortedTimes(_)
\* sorted(per_day.keys()): the keys as strings, in ascending order
SortedTimes(keys) ==
  IF keys = {} THEN <<>>
  ELSE LET t == CHOOSE t \in keys : TRUE
       IN InsertTime(t, SortedTimes(keys \ {t}))

RECURSIVE SdiSum(_, _, _, _)
\* u_sum += math.atanh(_clamp(ai, eps_a)) from a_list[i] on: the sum, or the
\* ValueError atanh raises
SdiSum(a_list, i, u_sum, eps_a) ==
  IF i > Len(a_list) THEN [raised |-> FALSE, u_sum |-> u_sum]
  ELSE LET c == _clamp(a_list[i], eps_a)
       IN IF AtanhRaises(c) THEN [raised |-> TRUE, u_sum |-> u_sum]
          ELSE SdiSum(a_list, i + 1, u_sum + Atanh(c), eps_a)

\* f"{a_sdi:.10f}": the alignment as written. The model's alignments are
\* multiples of 0.01, so the digits after the fourth are zeros; the value is
\* kept in ten-thousandths like the a of the rows main writes.
Format10(a) == a * 10

\* the SDI row of day t with the a-values a_list
SdiRow(t, a_list, eps_a) ==
  LET s == SdiSum(a_list, 1, 0, eps_a)
      a_sdi == Tanh(RDiv(s.u_sum, Max2(Len(a_list), 1)))
  IN [raised |-> s.raised,
      row |-> [time |-> t, kpi |-> "SDI", m |-> 0,
               a |-> IF s.raised THEN 0 ELSE Format10(a_sdi),
               band |-> band_from_a(a_sdi), band_hyst |-> band_from_a(a_sdi)]]

\* append_sdi_rows_from_csv on a file with the rows file_rows: whether it
\* raised (then nothing is written), and the rows it writes back
append_sdi_rows_from_csv(file_rows, eps_a, sdi_kpis) ==
  LET base_rows == base_rows_of(file_rows)
      filt == FilterOf(sdi_kpis)
      keys == {base_rows[i].time : i \in {j \in 1..Len(base_rows) :
                                            Contributes(base_rows[j], filt)}}
      days == SortedTimes(keys)
      sdi == [i \in 1..Len(days) |->
                SdiRow(days[i], PerDay(base_rows, filt, days[i]), eps_a)]
  IN [raised |-> \E i \in 1..Len(days) : sdi[i].raised,
      rows |-> base_rows \o [i \in 1..Len(days) |-> sdi[i].row]]

\* ------------------------------------------------------------------ state
VARIABLES
  args,        \* the parsed command line: eps_a, eps_w, promote, demote, slope_7d,
               \* compute_flag, sdi, sdi_kpis
  input,       \* the rows of input_csv, in file order
  pc,          \* where main is: read, group, fuse, split, hyst, alerts, sdi, done, aborted
  error,       \* the exception that ended the run, "" if none
  rows,        \* main's rows
  grouped,     \* main's grouped, as its items in insertion order
  fused_rows,  \* main's fused_rows
  by_kpi,      \* main's by_kpi, as its items in insertion order
  ki,          \* the item of by_kpi the hysteresis loop is at
  ri,          \* the record of that item the loop is at, 0 before its sort
  prev_band,   \* the loop's prev_band
  prev_a,      \* the loop's prev_a
  output_csv,  \* None until output_csv is written, then its rows
  alerts_csv,  \* None until alerts_csv is written, then its rows
  sdi_calls    \* the calls of append_sdi_rows_from_csv on output_csv that returned

vars == <<args, input, pc, error, rows, grouped, fused_rows, by_kpi, ki, ri,
          prev_band, prev_a, output_csv, alerts_csv, sdi_calls>>

\* the state main starts from, given the command line and the input file
Start(a, inp) ==
  /\ args = a
  /\ input = inp
  /\ pc = "read"
  /\ error = ""
  /\ rows = <<>>
  /\ grouped = <<>>
  /\ fused_rows = <<>>
  /\ by_kpi = <<>>
  /\ ki = 1
  /\ ri = 0
  /\ prev_band = NoBand
  /\ prev_a = None
  /\ output_csv = None
  /\ alerts_csv = None
  /\ sdi_calls = 0

\* ---------------------------------------------------------------- actions
\* main, lines 348-373: every row of the input is parsed and appended to rows
ReadInput ==
  /\ pc = "read"
  /\ LET parsed == [i \in 1..Len(input) |-> ParseRow(input[i], args)]
         bad == {i \in 1..Len(input) : parsed[i].raised}
     IN IF bad = {}
        THEN /\ rows' = [i \in 1..Len(input) |-> parsed[i].row]
             /\ pc' = "group"
             /\ error' = error
        ELSE /\ rows' = [i \in 1..((CHOOSE i \in bad : \A j \in bad : i <= j) - 1)
                           |-> parsed[i].row]
             /\ pc' = "aborted"
             /\ error' = "ValueError"
  /\ UNCHANGED <<args, input, grouped, fused_rows, by_kpi, ki, ri, prev_band,
                 prev_a, output_csv, alerts_csv, sdi_calls>>

\* main, lines 376-379
GroupRows ==
  /\ pc = "group"
  /\ grouped' = GroupLoop(rows, 1, <<>>)
  /\ pc' = "fuse"
  /\ UNCHANGED <<args, input, error, rows, fused_rows, by_kpi, ki, ri, prev_band,
                 prev_a, output_csv, alerts_csv, sdi_calls>>

\* main, lines 381-406: every group is fused, or the run ends on the first
\* exception
FuseGroups ==
  /\ pc = "fuse"
  /\ LET f == FuseAll(grouped, 1, <<>>, args)
     IN /\ fused_rows' = f.fused_rows
        /\ error' = f.error
        /\ pc' = IF f.error = "" THEN "split" ELSE "aborted"
  /\ UNCHANGED <<args, input, rows, grouped, by_kpi, ki, ri, prev_band, prev_a,
                 output_csv, alerts_csv, sdi_calls>>

\* main, lines 409-414; from here on the rows live in by_kpi (fused_rows keeps
\* them as they were fused)
SplitByKpi ==
  /\ pc = "split"
  /\ by_kpi' = SplitLoop(fused_rows, 1, <<>>)
  /\ pc' = "hyst"
  /\ ki' = 1
  /\ ri' = 0
  /\ UNCHANGED <<args, input, error, rows, grouped, fused_rows, prev_band, prev_a,
                 output_csv, alerts_csv, sdi_calls>>

\* prev_band, prev_a carried over from the previous KPI's pass
HystCarried == [band |-> prev_band, a |-> prev_a]

\* prev_band, prev_a = None, None
HystReset == [band |-> NoBand, a |-> None]

\* main, lines 415-417: the next KPI's list is sorted by time and the
\* hysteresis state is reset
StartKpi ==
  /\ pc = "hyst"
  /\ ki <= Len(by_kpi)
  /\ ri = 0
  /\ by_kpi' = [by_kpi EXCEPT ![ki].lst = SortedByTime(@)]
  /\ prev_band' = HystReset.band
  /\ prev_a' = HystReset.a
  /\ ri' = 1
  /\ UNCHANGED <<args, input, pc, error, rows, grouped, fused_rows, ki,
                 output_csv, alerts_csv, sdi_calls>>

\* main, lines 418-423: one record of the KPI's list gets its confirmed band
\* (its knobs_hash and build_id columns are left out of the model)
HystStep ==
  /\ pc = "hyst"
  /\ ki <= Len(by_kpi)
  /\ ri >= 1
  /\ LET r == by_kpi[ki].lst[ri]
         bh == next_band(prev_band, prev_a, r.a, args.promote, args.demote)
     IN /\ by_kpi' = [by_kpi EXCEPT ![ki].lst[ri].band_hyst = bh]
        /\ prev_band' = bh
        /\ prev_a' = Some(r.a)
  /\ IF ri = Len(by_kpi[ki].lst)
     THEN ki' = ki + 1 /\ ri' = 0
     ELSE ki' = ki /\ ri' = ri + 1
  /\ UNCHANGED <<args, input, pc, error, rows, grouped, fused_rows,
                 output_csv, alerts_csv, sdi_calls>>

\* main, lines 425-433: the output file is written, KPI by KPI in the
\* order of their names
WriteOutput ==
  /\ pc = "hyst"
  /\ ki > Len(by_kpi)
  /\ output_csv' = Some(OutRows(SortedKpis(by_kpi)))
  /\ pc' = "alerts"
  /\ UNCHANGED <<args, input, error, rows, grouped, fused_rows, by_kpi, ki, ri,
                 prev_band, prev_a, alerts_csv, sdi_calls>>

RECURSIVE AllAlerts(_, _)
\* all_alerts.extend(compute_alerts(lst, slope_7d)) over by_kpi.items()
AllAlerts(by, slope_7d) ==
  IF by = <<>> THEN <<>>
  ELSE compute_alerts(by[1].lst, slope_7d) \o AllAlerts(Tail(by), slope_7d)

\* main, lines 435-444, of a run given --alerts_csv
WriteAlerts ==
  /\ pc = "alerts"
  /\ alerts_csv' = Some(AllAlerts(by_kpi, args.slope_7d))
  /\ pc' = "sdi"
  /\ UNCHANGED <<args, input, error, rows, grouped, fused_rows, by_kpi, ki, ri,
                 prev_band, prev_a, output_csv, sdi_calls>>

\* main, lines 454-463, and append_sdi_rows_from_csv: without --sdi main goes
\* on to its summary; with --sdi the roll-up is run on output_csv, and the
\* file is rolled up again by every later call of the helper on it. A call
\* that raises ends the run and leaves the file as it was.
AppendSdi ==
  /\ pc = "sdi"
  /\ IF ~args.sdi
     THEN /\ pc' = "done"
          /\ UNCHANGED <<error, output_csv, sdi_calls>>
     ELSE LET res == append_sdi_rows_from_csv(Val(output_csv), args.eps_a,
                                              args.sdi_kpis)
          IN IF res.raised
             THEN /\ pc' = "aborted"
                  /\ error' = "ValueError: math domain error"
                  /\ UNCHANGED <<output_csv, sdi_calls>>
             ELSE /\ output_csv' = Some(res.rows)
                  /\ sdi_calls' = sdi_calls + 1
                  /\ error' = error
                  /\ \E again \in {sdi_calls + 1 < MaxRollups, FALSE} :
                       pc' = IF again THEN "sdi" ELSE "done"
  /\ UNCHANGED <<args, input, rows, grouped, fused_rows, by_kpi, ki, ri,
                 prev_band, prev_a, alerts_csv>>

Next ==
  \/ ReadInput
  \/ GroupRows
  \/ FuseGroups
  \/ SplitByKpi
  \/ StartKpi
  \/ HystStep
  \/ WriteOutput
  \/ WriteAlerts
  \/ AppendSdi

\* ------------------------------------------------------------- inputs
\* a CSV row of a file with the columns time, kpi, a, m and (unless weight
\* is NoCol) weight
Row(time, kpi, a, m, weight) ==
  [time |-> time, kpi |-> kpi, a |-> a, m |-> m, weight |-> weight,
   mapper |-> NoCol, q |-> NoCol, m1 |-> NoCol, m2 |-> NoCol, b |-> NoCol,
   actual |-> NoCol, forecast |-> NoCol, s |-> NoCol, k |-> NoCol]

\* a CSV row of a file with the mapper columns and no weight column
MapperRow(time, a, mapper, q, m1, m2, b, actual, forecast, s, k) ==
  [time |-> time, kpi |-> "K1", a |-> a, m |-> "", weight |-> NoCol,
   mapper |-> mapper, q |-> q, m1 |-> m1, m2 |-> m2, b |-> b,
   actual |-> actual, forecast |-> forecast, s |-> s, k |-> k]

\* the i-th day
Day(i) ==
  CASE i = 1 -> "2024-01-01" [] i = 2 -> "2024-01-02" [] i = 3 -> "2024-01-03"
    [] i = 4 -> "2024-01-04" [] OTHER -> "2024-01-05"

\* the command line: argparse's defaults where the model can hold them
\* (promote 0.05, demote -0.05, slope_7d -0.02, no --sdi, --sdi_kpis ""),
\* eps_a and eps_w as given
Args(eps_a, eps_w, compute_flag) ==
  [eps_a |-> eps_a, eps_w |-> eps_w, promote |-> 50, demote |-> -50,
   slope_7d |-> -20, compute_flag |-> compute_flag, sdi |-> FALSE,
   sdi_kpis |-> <<"">>]

\* eps_a is in the open interval (0, 1)
ValidEps(eps_a) == 0 < eps_a /\ eps_a < FP

\* Sequences of 1 to n elements of S
SeqsUpTo(S, n) == UNION {[1..k -> S] : k \in 1..n}

\* One entity observed once a day, in time order.
SeriesA == {"0.05", "0.15", "0.45", "0.49", "0.5", "0.54", "0.8"}
InitSeries ==
  \E as \in SeqsUpTo(SeriesA, MaxSeries) :
    Start(Args(10, 250, FALSE),
          [i \in 1..Len(as) |-> Row(Day(i), "K1", as[i], "", NoCol)])

\* Several entities, times spelled in several ways, rows in any order.
OrderRows ==
  {Row(tk[1], tk[2], a, "", NoCol) :
     tk \in {<<"2024-01-01", "K1">>, <<"2024-01-01T00:00:00", "K1">>,
             <<"2024-01-02", "K1">>, <<"2024-01-01", "K2">>,
             <<"2024-01-02", "K2">>},
     a \in {"0.49", "0.52"}}
InitOrder == \E inp \in SeqsUpTo(OrderRows, MaxRows) : Start(Args(10, 250, FALSE), inp)

\* One group of weighted siblings.
FuseRows(ws) ==
  {Row("2024-01-01", "K1", a, "", w) : a \in {"0.9", "-0.9", "0.3"}, w \in ws}
InitFuse ==
  \E eps_a \in {10, 100}, eps_w \in {250, 2000} :
    \E ws \in {{NoCol}, {"", "0", "-1", "2", "abc"}} :
      \E inp \in SeqsUpTo(FuseRows(ws), MaxSiblings) :
        Start(Args(eps_a, eps_w, FALSE), inp)

\* One group of siblings with magnitudes.
SiblingRows ==
  {Row("2024-01-01", "K1", a, mw[1], mw[2]) :
     a \in {"0.9", "0.3"},
     mw \in {<<"", "">>, <<"3", "">>, <<"3", "2">>, <<"7", "">>}}
InitSiblings ==
  \E inp \in SeqsUpTo(SiblingRows, MaxPerm) : Start(Args(10, 250, FALSE), inp)

\* Any eps_a, rows that give a or name a mapper, one row a day.
PolicyRows(t) ==
  {MapperRow(t, "0.5", "", "", "", "", "", "", "", "", ""),
   MapperRow(t, "1", "", "", "", "", "", "", "", "", ""),
   MapperRow(t, "", "", "", "", "", "", "", "", "", ""),
   MapperRow(t, "na", "bogus", "", "", "", "", "", "", "", ""),
   MapperRow(t, "", "coverage", "0.9", "", "", "", "", "", "", ""),
   MapperRow(t, "", "coverage", "x", "", "", "", "", "", "", ""),
   MapperRow(t, "", "coverage", "", "", "", "", "", "", "", ""),
   MapperRow(t, "", "agreement", "", "0.021", "0.02", "0.005", "", "", "", ""),
   MapperRow(t, "", "agreement", "", "0.021", "0.02", "0", "", "", "", ""),
   MapperRow(t, "", "agreement", "", "0.021", "0.02", "-1", "", "", "", ""),
   MapperRow(t, "", "agreement", "", "x", "0.02", "0.005", "", "", "", ""),
   MapperRow(t, "na", "residual", "", "", "", "", "100", "90", "50", ""),
   MapperRow(t, "", "residual", "", "", "", "", "100", "90", "50", "2"),
   MapperRow(t, "", "residual", "", "", "", "", "100", "90", "0", ""),
   MapperRow(t, "", "residual", "", "", "", "", "100", "90", "50", "x")}
PolicyEps == {0, 10, 1000, 1500, 2000}
InitPolicy ==
  \E eps_a \in PolicyEps, n \in 1..MaxPolicyRows :
    \E inp \in [1..n -> PolicyRows("2024-01-01")] :
      Start(Args(eps_a, 250, TRUE),
            [i \in 1..n |-> [inp[i] EXCEPT !.time = Day(i)]])

\* Several entities, one of them named SDI, over two days; --sdi with a
\* KPI filter; a valid eps_a, or eps_a = 0 with a weight that drives the
\* fused alignment to -1.
SdiRows ==
  {Row("2024-01-01", k, a, "", "") : k \in {"K1", "K2"}, a \in {"0.3", "0.9"}}
   \cup {Row("2024-01-02", "SDI", "0.9", "", ""),
         Row("2024-01-02", "K2", "0.3", "", ""),
         Row("2024-01-02", "K1", "0.9", "", "-1")}
SdiFilters == {<<"">>, <<" 'K1' ", " ">>, <<"\"K2\"", "SDI">>}
InitSdi ==
  \E p \in ({10} \X SdiFilters) \cup {<<0, <<"">> >>} :
    \E inp \in SeqsUpTo(SdiRows, MaxSdiRows) :
      Start([Args(p[1], 250, FALSE) EXCEPT !.sdi = TRUE, !.sdi_kpis = p[2]], inp)

Spec == InitSeries /\ [][Next]_vars
SpecOrder == InitOrder /\ [][Next]_vars
SpecFuse == InitFuse /\ [][Next]_vars
SpecSiblings == InitSiblings /\ [][Next]_vars
SpecPolicy == InitPolicy /\ [][Next]_vars
SpecSdi == InitSdi /\ [][Next]_vars

\* ------------------------------------------------------------- claims
\* the hysteresis loop has given record i of item k of by_kpi its confirmed band
Processed(k, i) ==
  /\ pc \in {"hyst", "alerts", "sdi", "done"}
  /\ k <= Len(by_kpi)
  /\ i <= Len(by_kpi[k].lst)
  /\ (k < ki \/ (k = ki /\ ri >= 1 /\ i < ri))

\* the hysteresis loop is over
HystDone == pc \in {"alerts", "sdi", "done"}

\* C1: every record the hysteresis pass has processed carries, as confirmed
\* band, its raw band if it is the first of its series, or if the raw band
\* ranks above the previous record's confirmed band and the alignment rose by at
\* least promote, or ranks below it and the alignment fell by at least -demote;
\* in every other case it carries the previous record's confirmed band.
C1_Hysteresis ==
  \A k \in 1..Len(by_kpi) : \A i \in 1..Len(by_kpi[k].lst) :
    Processed(k, i) =>
      LET lst == by_kpi[k].lst
          raw == band_from_a(lst[i].a)
      IN IF i = 1 THEN lst[i].band_hyst = raw
         ELSE LET prev == lst[i - 1].band_hyst
                  delta == lst[i].a - lst[i - 1].a
                  up == SCORE[raw] > SCORE[prev] /\ delta >= args.promote
                  down == SCORE[raw] < SCORE[prev] /\ delta <= args.demote
              IN lst[i].band_hyst = IF up \/ down THEN raw ELSE prev

\* C1 witness: a finished series in which one record moved the confirmed band
\* to its raw band and another, whose raw band differs, left it where it was.
C1_Witness ==
  /\ pc = "done"
  /\ \E i, j \in 2..Len(by_kpi[1].lst) :
       LET lst == by_kpi[1].lst
       IN /\ lst[i].band_hyst = lst[i].band
          /\ lst[i].band_hyst # lst[i - 1].band_hyst
          /\ lst[j].band # lst[j].band_hyst
          /\ lst[j].band_hyst = lst[j - 1].band_hyst

\* the alerts written for kpi k with rule tag rule
AlertsOf(k, rule) ==
  LET al == Val(alerts_csv)
  IN {n \in 1..Len(al) : al[n].kpi = k /\ al[n].rule = rule}

\* at least 2 of the 3 comparisons over the confirmed-band ranks ending at i hold
TwoOfThree(lst, i) ==
  LET rank(j) == SCORE[lst[j].band_hyst]
      c1 == rank(i - 1) < rank(i - 2)
      c2 == rank(i) < rank(i - 1)
      c3 == rank(i) < rank(i - 2)
  IN (c1 /\ c2) \/ (c1 /\ c3) \/ (c2 /\ c3)

\* C8: in the alerts written, each entity's degrade_2of3 alerts are, one each,
\* the records i >= 3 of its series for which at least 2 of the 3 comparisons
\* hold, stamped with that record's time; none for the first two records, and
\* always one at the third of three strictly decreasing ranks.
C8_Degrade ==
  pc = "done" =>
    \A k \in 1..Len(by_kpi) :
      LET lst == by_kpi[k].lst
          al == Val(alerts_csv)
          mine == AlertsOf(by_kpi[k].kpi, "degrade_2of3")
          firing == {i \in 3..Len(lst) : TwoOfThree(lst, i)}
      IN /\ \A i \in 1..Len(lst) :
              (\E n \in mine : al[n].time = lst[i].time) <=> i \in firing
         /\ Cardinality(mine) = Cardinality(firing)
         /\ \A i \in 3..Len(lst) :
              (/\ SCORE[lst[i].band_hyst] < SCORE[lst[i - 1].band_hyst]
               /\ SCORE[lst[i - 1].band_hyst] < SCORE[lst[i - 2].band_hyst])
                => \E n \in mine : al[n].time = lst[i].time

\* C8 witness: a series of 4 whose fourth record fires the alert on exactly 2
\* of the 3 comparisons, and whose third does not.
C8_Witness ==
  /\ pc = "done"
  /\ Len(by_kpi[1].lst) = 4
  /\ LET lst == by_kpi[1].lst
         al == Val(alerts_csv)
     IN /\ Len(al) = 1
        /\ al[1].time = lst[4].time
        /\ ~(SCORE[lst[4].band_hyst] < SCORE[lst[3].band_hyst])
        /\ SCORE[lst[3].band_hyst] < SCORE[lst[2].band_hyst]

\* the fusion loop is over and every group has its fused row
Fused == pc = "split"

\* C2: every fused record has an alignment within the clamp bounds
\* [-1+eps_a, 1-eps_a], whatever the weights of its siblings.
C2_FusedWithinClamp ==
  (Fused /\ ValidEps(args.eps_a)) =>
    \A i \in 1..Len(fused_rows) :
      /\ Lo(args.eps_a) <= fused_rows[i].a
      /\ fused_rows[i].a <= Hi(args.eps_a)

\* the siblings of group g all carry the clamped alignment a
AllCarry(g, a) ==
  \A j \in 1..Len(g.lst) : clamp(g.lst[j].a, Lo(args.eps_a), Hi(args.eps_a)) = a

RECURSIVE SumWeights(_)
\* the sum of the weights of the rows
SumWeights(lst) == IF lst = <<>> THEN 0 ELSE WeightOf(lst[1]) + SumWeights(Tail(lst))

\* C3 as claimed: a group whose siblings all carry the same clamped alignment
\* a fuses to a, whatever their weights.
C3_FuseIdentity ==
  Fused =>
    \A i \in 1..Len(grouped) :
      \A a \in {grouped[i].lst[1].a} :
        AllCarry(grouped[i], a) => fused_rows[i].a = a

\* C3 as amended: a group whose siblings all carry the same clamped alignment
\* a, and whose weights sum to at least eps_w, fuses to a.
C3_FuseIdentityAmended ==
  Fused =>
    \A i \in 1..Len(grouped) :
      \A a \in {grouped[i].lst[1].a} :
        (AllCarry(grouped[i], a) /\ SumWeights(grouped[i].lst) >= args.eps_w)
          => fused_rows[i].a = a

\* C3 witness: two siblings with the same non-zero alignment, one weighted 2
\* and one weighted -1, fused to that alignment.
C3_Witness ==
  /\ Fused
  /\ Len(grouped[1].lst) = 2
  /\ grouped[1].lst[1].a # 0
  /\ AllCarry(grouped[1], grouped[1].lst[1].a)
  /\ {grouped[1].lst[1].weight, grouped[1].lst[2].weight} = {"2", "-1"}
  /\ fused_rows[1].a = grouped[1].lst[1].a

\* the list lst in the order p, a permutation of its indices
Permuted(lst, p) == [j \in 1..Len(lst) |-> lst[p[j]]]

\* C4: the fused record of a group (its alignment and its magnitude) is the
\* one the fusion gives for every permutation of the group's rows.
C4_OrderIndependent ==
  Fused =>
    \A i \in 1..Len(grouped) :
      \A p \in Permutations(1..Len(grouped[i].lst)) :
        LET f == FuseGroup(grouped[i].key[1], grouped[i].key[2],
                           Permuted(grouped[i].lst, p), args)
        IN f.error = "" /\ f.row = fused_rows[i]

\* C4 witness: a fused group of siblings with different alignments, whose
\* magnitude is not that of the first row read with a magnitude.
C4_Witness ==
  /\ Fused
  /\ Len(grouped[1].lst) >= 2
  /\ grouped[1].lst[1].a # grouped[1].lst[2].a
  /\ HasMag(grouped[1].lst[1])
  /\ fused_rows[1].m # MagOf(grouped[1].lst[1])

\* C5: a run whose eps_a is not in (0, 1) never writes the output file.
C5_InvalidPolicyNoOutput == ~ValidEps(args.eps_a) => output_csv = None

\* row r is mapped (a is empty or "na" and the mapper columns are in use)
UsesMapper(r) == args.compute_flag /\ Cell(r.a) \in {"", "na"}

NotNumber(c) == Cell(c) \notin DOMAIN FloatOf
\* the mapping of row r fails: unknown or absent mapper, a missing or
\* non-numeric field of the mapper, b <= 0, s <= 0
MappingFails(r) ==
  /\ UsesMapper(r)
  /\ CASE Cell(r.mapper) = "coverage" -> NotNumber(r.q)
       [] Cell(r.mapper) = "agreement" ->
            \/ NotNumber(r.m1) \/ NotNumber(r.m2) \/ NotNumber(r.b)
            \/ FloatOf[Cell(r.b)] <= 0
       [] Cell(r.mapper) = "residual" ->
            \/ NotNumber(r.actual) \/ NotNumber(r.forecast) \/ NotNumber(r.s)
            \/ FloatOf[Cell(r.s)] <= 0
            \/ (Cell(r.k) # "" /\ NotNumber(r.k))
       [] OTHER -> TRUE

\* C6: a mapping failure never ends the run. The reading loop reads every
\* row; the mapper gives a failing row no alignment and a reason, and the row
\* is kept with the alignment clamp(0), which is 0 under a valid eps_a; a run
\* under a valid eps_a is never aborted; and in a finished run every input
\* row's (time, kpi) has its record in the output.
C6_MappingFailureRecoverable ==
  /\ pc # "read" => Len(rows) = Len(input)
  /\ pc = "aborted" => ~ValidEps(args.eps_a)
  /\ pc # "read" =>
       \A i \in 1..Len(input) :
         MappingFails(input[i]) =>
           LET res == compute_a_from_mapper(input[i], args.eps_a)
           IN /\ ~res.raised /\ IsNone(res.a) /\ res.reason # ""
              /\ rows[i].a = clamp(0, Lo(args.eps_a), Hi(args.eps_a))
              /\ ValidEps(args.eps_a) => rows[i].a = 0
  /\ output_csv # None =>
       \A i \in 1..Len(input) :
         \E n \in 1..Len(Val(output_csv)) :
           /\ Val(output_csv)[n].time = input[i].time
           /\ Val(output_csv)[n].kpi = input[i].kpi
           /\ (ValidEps(args.eps_a) /\ MappingFails(input[i]))
                => Val(output_csv)[n].a = 0

\* C6 witness: a finished run under a valid eps_a whose first row fails to
\* map and whose second row maps to a non-zero alignment, both in the output.
C6_Witness ==
  /\ pc = "done"
  /\ ValidEps(args.eps_a)
  /\ Len(input) = 2
  /\ MappingFails(input[1])
  /\ input[1].mapper = "agreement"
  /\ UsesMapper(input[2]) /\ ~MappingFails(input[2])
  /\ Len(Val(output_csv)) = 2
  /\ Val(output_csv)[1].a = 0
  /\ Val(output_csv)[2].a # 0

\* weight cell c is absent, empty or not a number
DefaultedWeight(c) == c = NoCol \/ c = "" \/ c \notin DOMAIN FloatOf

\* C7: a sibling whose weight is absent, empty or non-numeric raises no
\* error, and its group fuses to the alignment it has with that weight set
\* to 1.
C7_WeightDefaults ==
  /\ pc # "aborted"
  /\ Fused =>
       \A i \in 1..Len(grouped) :
         LET as1 == [j \in 1..Len(grouped[i].lst) |->
                       IF DefaultedWeight(grouped[i].lst[j].weight)
                       THEN [grouped[i].lst[j] EXCEPT !.weight = "1"]
                       ELSE grouped[i].lst[j]]
         IN fused_rows[i].a =
              FuseGroup(grouped[i].key[1], grouped[i].key[2], as1, args).row.a

RECURSIVE HystFold(_, _, _, _)
\* the confirmed bands next_band gives the records of lst from i on, one after
\* the other, starting from the state (pb, pa)
HystFold(lst, i, pb, pa) ==
  IF i > Len(lst) THEN <<>>
  ELSE LET bh == next_band(pb, pa, lst[i].a, args.promote, args.demote)
       IN <<bh>> \o HystFold(lst, i + 1, bh, Some(lst[i].a))

\* the lists main builds from the rows inp alone, up to the sort by time: one
\* item per entity, its fused records banded and sorted
SeriesOf(inp) ==
  LET parsed == [i \in 1..Len(inp) |-> ParseRow(inp[i], args).row]
      f == FuseAll(GroupLoop(parsed, 1, <<>>), 1, <<>>, args).fused_rows
      by == SplitLoop(f, 1, <<>>)
  IN [k \in 1..Len(by) |-> [kpi |-> by[k].kpi, lst |-> SortedByTime(by[k].lst)]]

\* the (entity, time, confirmed band) of every record of the items by
BandsIn(by) ==
  UNION {{<<by[k].kpi, by[k].lst[i].time, by[k].lst[i].band_hyst>> :
            i \in 1..Len(by[k].lst)} : k \in 1..Len(by)}

\* the same from the rows inp, each entity's pass started from the empty state
BandsFrom(inp) ==
  LET by == SeriesOf(inp)
      h(k) == HystFold(by[k].lst, 1, NoBand, None)
  IN UNION {{<<by[k].kpi, by[k].lst[i].time, h(k)[i]>> :
               i \in 1..Len(by[k].lst)} : k \in 1..Len(by)}

\* C9: each entity's records are processed in strictly increasing time (no
\* two at the same time), and the confirmed bands are those of every other
\* order of the input rows.
C9_StrictTimeOrder ==
  HystDone =>
    /\ \A k \in 1..Len(by_kpi) : \A i \in 2..Len(by_kpi[k].lst) :
         parse_iso(by_kpi[k].lst[i - 1].time) < parse_iso(by_kpi[k].lst[i].time)
    /\ \A p \in Permutations(1..Len(input)) :
         BandsFrom(Permuted(input, p)) = BandsIn(by_kpi)

\* the rows of inp of entity kpi
RowsOfKpi(inp, kpi) == LET mine(r) == r.kpi = kpi IN SelectSeq(inp, mine)

\* C10: every entity's pass starts from the empty hysteresis state, and the
\* confirmed bands of an entity are those a run over that entity's rows
\* alone gives, whatever the other entities' rows and the order of the passes.
C10_EntityIsolation ==
  /\ (pc = "hyst" /\ ri = 1) => (prev_band = NoBand /\ prev_a = None)
  /\ HystDone =>
       \A k \in 1..Len(by_kpi) :
         LET own == SeriesOf(RowsOfKpi(input, by_kpi[k].kpi))[1].lst
         IN [i \in 1..Len(by_kpi[k].lst) |-> by_kpi[k].lst[i].band_hyst]
              = HystFold(own, 1, NoBand, None)

\* C10 witness: two entities with interleaved rows, the second pass starting
\* on a record whose band is not the one the first pass ended on.
C10_Witness ==
  /\ pc = "done"
  /\ Len(by_kpi) = 2
  /\ Len(input) = 3
  /\ input[1].kpi = input[3].kpi
  /\ input[1].kpi # input[2].kpi
  /\ by_kpi[2].lst[1].band_hyst # by_kpi[1].lst[Len(by_kpi[1].lst)].band_hyst
\* the rows main wrote to output_csv, before any roll-up
MainRows == OutRows(SortedKpis(by_kpi))

\* the row is an entity's (not the portfolio's)
IsEntityRow(r) == r.kpi # "SDI"

\* the entity row is one the portfolio of the run's --sdi_kpis is made of
InPortfolio(r) ==
  /\ IsEntityRow(r)
  /\ r.time # ""
  /\ \/ \A i \in 1..Len(args.sdi_kpis) : _norm[args.sdi_kpis[i]] = ""
     \/ \E i \in 1..Len(args.sdi_kpis) : _norm[args.sdi_kpis[i]] = r.kpi

RECURSIVE RapiditySum(_)
\* the sum of atanh of the written alignments, clamped, of the rows of
\* MainRows at the indexes js
RapiditySum(js) ==
  IF js = {} THEN 0
  ELSE LET j == CHOOSE j \in js : TRUE
       IN Atanh(clamp(MainRows[j].a \div 10, Lo(args.eps_a), Hi(args.eps_a)))
            + RapiditySum(js \ {j})

\* out is MainRows rolled up: the entity rows as main wrote them and nothing
\* else of an entity, and for every time bucket one SDI row if an entity row
\* of the portfolio has that time and none otherwise, its alignment the
\* tanh-mean of those entity rows alone
RolledUp(out) ==
  /\ SelectSeq(out, IsEntityRow) = SelectSeq(MainRows, IsEntityRow)
  /\ \A t \in {MainRows[j].time : j \in 1..Len(MainRows)}
              \cup {out[i].time : i \in 1..Len(out)} :
       LET sd == {i \in 1..Len(out) : ~IsEntityRow(out[i]) /\ out[i].time = t}
           en == {j \in 1..Len(MainRows) :
                    InPortfolio(MainRows[j]) /\ MainRows[j].time = t}
       IN /\ Cardinality(sd) = IF en = {} THEN 0 ELSE 1
          /\ \A i \in sd :
               out[i].a = 10 * Tanh(RDiv(RapiditySum(en), Cardinality(en)))

\* C11: every roll-up that returns leaves output_csv as main's rows rolled
\* up -- the SDI rows it found are gone and did not contribute, the other
\* rows are written back unchanged, and there is exactly one SDI row per time
\* bucket with a contributing entity row -- and a roll-up after the first
\* leaves the file exactly as it found it.
C11_RollupIdempotent ==
  [][sdi_calls' # sdi_calls =>
       /\ RolledUp(Val(output_csv'))
       /\ sdi_calls >= 1 => output_csv' = output_csv]_vars

\* the file of a run whose input has a row of an entity named SDI and a row
\* the KPI filter leaves out has been rolled up twice and holds an SDI row
C11_Witness ==
  /\ sdi_calls >= 2
  /\ \E j \in 1..Len(MainRows) : ~IsEntityRow(MainRows[j])
  /\ \E j \in 1..Len(MainRows) :
       IsEntityRow(MainRows[j]) /\ ~InPortfolio(MainRows[j])
  /\ \E i \in 1..Len(Val(output_csv)) :
       /\ ~IsEntityRow(Val(output_csv)[i])
       /\ \E j \in 1..Len(MainRows) :
            InPortfolio(MainRows[j]) /\ MainRows[j].time = Val(output_csv)[i].time
====
